---------------------------- MODULE Spec2Model ----------------------------
(***************************************************************************)
(* Model of the wiki legal-document segmenter of poc/backend/parsers.py:   *)
(* get_line_type (the line classifier), get_section_properties (the        *)
(* section extractor), WikiSectionParser.parse (the aggregator) and        *)
(* WikiSectionParser.parse_many (the batch loop over parse); and of        *)
(* WikiFetcher.fetch_one of poc/backend/fetchers.py (the retry loop around *)
(* the HTTP request and the HTML parse).                                   *)
(*                                                                         *)
(* A Python str is a sequence of characters.  A character is a one-element *)
(* token: "=", " ", "@", ".", "\n", a digit or a letter.  Each Hebrew      *)
(* heading keyword and each metadata tag is one token (the keyword "HELEK" *)
(* stands for the word of LineType.PART, "<SHEM>" for the law-name tag),   *)
(* so `kw in title` is membership of the token in the title.  Python's     *)
(* None is the one-token sequence <<"None">>, which no text can equal.     *)
(***************************************************************************)
EXTENDS Integers, Sequences, FiniteSets, TLC

VARIABLES
    document,         \* the argument of WikiSectionParser.parse
    pc,               \* "start" | "walk" | "done": position inside parse
    raised,           \* the exception parse raised, or NoError
    law_name,         \* parse's local law_name
    lines,            \* parse's local lines (document.splitlines())
    lineIdx,          \* parse's cursor, 0-based as in the code
    current_part,     \* parse's local current_part
    current_chapter,  \* parse's local current_chapter
    current_sign,     \* parse's local current_sign
    current_section,  \* parse's local current_section
    result,           \* parse's local result: the blocks appended so far
    origin,           \* history: for each block of result, its source lines
    line,             \* the argument of get_line_type / get_section_properties
    cpc,              \* "call" | "ret": position of the classifier call
    line_type,        \* what get_line_type returned
    section_prop,     \* what get_section_properties returned or raised
    documents,        \* the argument of WikiSectionParser.parse_many
    doc_i,            \* parse_many's loop index i
    results,          \* parse_many's local results
    failed_docs,      \* parse_many's local failed_docs
    mpc,              \* "start" | "loop" | "parse" | "done": position inside parse_many
    returned,         \* what parse_many returned to its caller
    batch_raised,     \* the exception parse_many raised, or NoError
    resource,         \* the argument of WikiFetcher.fetch_one
    retries,          \* the argument retries of fetch_one
    attempt,          \* fetch_one's loop variable
    fpc,              \* "start" | "loop" | "soup" | "find" | "done": position inside fetch_one
    fetch_returned,   \* what fetch_one returned
    fetch_raised,     \* the exception fetch_one raised, or NoError
    fetch_log         \* history: what happened in each attempt

vars == <<document, pc, raised, law_name, lines, lineIdx, current_part,
          current_chapter, current_sign, current_section, result, origin,
          line, cpc, line_type, section_prop,
          documents, doc_i, results, failed_docs, mpc, returned, batch_raised,
          resource, retries, attempt, fpc, fetch_returned, fetch_raised, fetch_log>>

parseVars == <<document, pc, raised, law_name, lines, lineIdx, current_part,
               current_chapter, current_sign, current_section, result, origin>>

classifyVars == <<line, cpc, line_type, section_prop>>

manyVars == <<documents, doc_i, results, failed_docs, mpc, returned, batch_raised>>

fetchVars == <<resource, retries, attempt, fpc, fetch_returned, fetch_raised, fetch_log>>

-----------------------------------------------------------------------------
(* Characters and strings *)

None == <<"None">>

NL == "\n"

\* what Python's \s and str.strip() treat as whitespace, within the alphabet
Whitespace == {" ", NL, "\t"}

\* the characters of line.strip(' =()\{\}')
HeadingStripChars == {" ", "=", "(", ")", "\\", "{", "}"}

\* LineType: the enum's members
ADDENDUM == "ADDENDUM"
PART == "PART"
CHAPTER == "CHAPTER"
SIGN == "SIGN"
SECTION == "SECTION"
REGULAR == "REGULAR"
METADATA == "METADATA"

LineType == {ADDENDUM, PART, CHAPTER, SIGN, SECTION, REGULAR, METADATA}

\* LineType.<member>.value for the four heading members: the keyword token
KeywordOf(t) ==
    CASE t = ADDENDUM -> "TOSEFET"
      [] t = PART -> "HELEK"
      [] t = CHAPTER -> "PEREK"
      [] t = SIGN -> "SIMAN"

\* the tags of the startswith tuple of get_line_type
MetadataTags == {"<SHEM>", "<MAKOR>", "<MAVO>", "<HATIMOT>", "<PIRSUM>",
                 "<SHEM KODEM>", "<MAAGAR"}

\* characters of the class [\d\w\-\.] and the Hebrew maqaf of the section regex
SectionTokenChars == {"1", "2", "a", "b", "x", "T", "_", "-", ".", "MAQAF",
                      "TOSEFET", "HELEK", "PEREK", "SIMAN"}

\* stop_tags with CHAPTER left out of the SIGN entry
stop_tags_SignOpen(t) ==
    CASE t = ADDENDUM -> {ADDENDUM, PART, METADATA}
      [] t = PART -> {PART, ADDENDUM, METADATA}
      [] t = CHAPTER -> {CHAPTER, PART, ADDENDUM, METADATA}
      [] t = SIGN -> {SIGN, PART, ADDENDUM, METADATA}
      [] t = SECTION -> {SECTION, SIGN, CHAPTER, PART, ADDENDUM, METADATA}
      [] t = METADATA -> {SECTION, SIGN, CHAPTER, PART, ADDENDUM}

\* stop_tags with SECTION left out of the METADATA entry
stop_tags_MetadataKeepsSections(t) ==
    CASE t = ADDENDUM -> {ADDENDUM, PART, METADATA}
      [] t = PART -> {PART, ADDENDUM, METADATA}
      [] t = CHAPTER -> {CHAPTER, PART, ADDENDUM, METADATA}
      [] t = SIGN -> {SIGN, CHAPTER, PART, ADDENDUM, METADATA}
      [] t = SECTION -> {SECTION, SIGN, CHAPTER, PART, ADDENDUM, METADATA}
      [] t = METADATA -> {SIGN, CHAPTER, PART, ADDENDUM}

stop_tags(t) ==
    CASE t = ADDENDUM -> {ADDENDUM, PART, METADATA}
      [] t = PART -> {PART, ADDENDUM, METADATA}
      [] t = CHAPTER -> {CHAPTER, PART, ADDENDUM, METADATA}
      [] t = SIGN -> {SIGN, CHAPTER, PART, ADDENDUM, METADATA}
      [] t = SECTION -> {SECTION, SIGN, CHAPTER, PART, ADDENDUM, METADATA}
      [] t = METADATA -> {SECTION, SIGN, CHAPTER, PART, ADDENDUM}

AllIn(s, i, j, chars) == \A k \in i..j : s[k] \in chars

\* the largest element of a non-empty set of naturals
MaxOf(S) == CHOOSE m \in S : \A k \in S : k <= m

MinOf(S) == CHOOSE m \in S : \A k \in S : m <= k

\* str.strip(chars): drop the leading and the trailing characters in chars
Strip(s, chars) ==
    LET keep == {k \in 1..Len(s) : s[k] \notin chars}
    IN  IF keep = {} THEN <<>> ELSE SubSeq(s, MinOf(keep), MaxOf(keep))

\* str.strip()
StripWS(s) == Strip(s, Whitespace)

\* str.splitlines(): lines end at "\n"; a final "\n" opens no further line
RECURSIVE splitlines(_)
splitlines(s) ==
    IF s = <<>> THEN <<>>
    ELSE LET brk == {k \in 1..Len(s) : s[k] = NL}
         IN  IF brk = {} THEN <<s>>
             ELSE <<SubSeq(s, 1, MinOf(brk) - 1)>>
                  \o splitlines(SubSeq(s, MinOf(brk) + 1, Len(s)))

-----------------------------------------------------------------------------
(* get_line_type *)

\* the pattern with an optional opening run, ^(=*)\s*(.+?)\s*(=+)?$
HeadingSplits_OptionalRun(s) ==
    LET n == Len(s)
        Is == {i \in 0..n : AllIn(s, 1, i, {"="})}
        Js(i) == {j \in i..n : AllIn(s, i + 1, j, Whitespace)}
        Closing(k) == \E m \in k..n : /\ AllIn(s, k + 1, m, Whitespace)
                                    /\ AllIn(s, m + 1, n, {"="})
        Ks(j) == {k \in (j + 1)..n : (\A q \in (j + 1)..k : s[q] # NL) /\ Closing(k)}
    IN  UNION {UNION {{<<i, j, k>> : k \in Ks(j)} : j \in Js(i)} : i \in Is}

\* re.match of ^(=+)\s*(.+?)\s*(=+)?$ : the ends <<i, j, k>> of group 1, of the
\* first \s* and of group 2 in every way the pattern can be laid over the line
HeadingSplits(s) ==
    LET n == Len(s)
        Is == {i \in 1..n : AllIn(s, 1, i, {"="})}
        Js(i) == {j \in i..n : AllIn(s, i + 1, j, Whitespace)}
        Closing(k) == \E m \in k..n : /\ AllIn(s, k + 1, m, Whitespace)
                                    /\ AllIn(s, m + 1, n, {"="})
        Ks(j) == {k \in (j + 1)..n : (\A q \in (j + 1)..k : s[q] # NL) /\ Closing(k)}
    IN  UNION {UNION {{<<i, j, k>> : k \in Ks(j)} : j \in Js(i)} : i \in Is}

\* the match the regex engine returns: group 1 greedy, \s* greedy, group 2 lazy
HeadingMatch(s) ==
    LET all == HeadingSplits(s)
        i == MaxOf({t[1] : t \in all})
        j == MaxOf({t[2] : t \in {u \in all : u[1] = i}})
        k == MinOf({t[3] : t \in {u \in all : u[1] = i /\ u[2] = j}})
    IN  <<i, j, k>>

\* m_head.group(2).strip(' =()\{\}')
HeadingTitle(s) ==
    LET m == HeadingMatch(s)
    IN  Strip(SubSeq(s, m[2] + 1, m[3]), HeadingStripChars)

Contains(s, c) == \E k \in 1..Len(s) : s[k] = c

\* the headings list with PART tested before ADDENDUM
HeadingOrder_PartFirst == <<PART, ADDENDUM, CHAPTER, SIGN>>

\* the loop `for t in headings: if t.value in title: return t`
HeadingOrder == <<ADDENDUM, PART, CHAPTER, SIGN>>

\* no keyword of the loop is in the title: the loop falls through
NoHeading == "NoHeading"

FirstHeading(title) ==
    LET hits == {n \in 1..Len(HeadingOrder) : Contains(title, KeywordOf(HeadingOrder[n]))}
    IN  IF hits = {} THEN NoHeading ELSE HeadingOrder[MinOf(hits)]

\* line.strip().startswith((...tags...))
StartsWithTag(s) ==
    LET t == StripWS(s) IN t # <<>> /\ t[1] \in MetadataTags

\* re.match of ^\s*@\s*([\d\w\-\.]+)\.\s*(.*)$ : the ends <<a, b, c, d>> of the
\* leading \s*, of the \s* after "@", of group 1 and of the \s* before group 2
SectionSplits(s) ==
    LET n == Len(s)
        As == {a \in 0..(n - 1) : AllIn(s, 1, a, Whitespace) /\ s[a + 1] = "@"}
        Bs(a) == {b \in (a + 1)..n : AllIn(s, a + 2, b, Whitespace)}
        Cs(b) == {c \in (b + 1)..(n - 1) :
                     AllIn(s, b + 1, c, SectionTokenChars) /\ s[c + 1] = "."}
        Ds(c) == {d \in (c + 1)..n : /\ AllIn(s, c + 2, d, Whitespace)
                                      /\ \A q \in (d + 1)..n : s[q] # NL}
    IN  UNION {UNION {UNION {{<<a, b, c, d>> : d \in Ds(c)} : c \in Cs(b)}
                      : b \in Bs(a)} : a \in As}

\* the match the regex engine returns: every quantifier greedy, left to right
SectionMatch(s) ==
    LET all == SectionSplits(s)
        a == MaxOf({t[1] : t \in all})
        b == MaxOf({t[2] : t \in {u \in all : u[1] = a}})
        c == MaxOf({t[3] : t \in {u \in all : u[1] = a /\ u[2] = b}})
        d == MaxOf({t[4] : t \in {u \in all : u[1] = a /\ u[2] = b /\ u[3] = c}})
    IN  <<a, b, c, d>>

\* the LineType returned; RaisesValueError when the argument is None
RaisesValueError == "ValueError"

\* a classifier that takes a line for metadata when a tag is anywhere in it
get_line_type_TagAnywhere(s) ==
    IF s = None THEN RaisesValueError
    ELSE IF StripWS(s) = <<>> THEN REGULAR
    ELSE IF HeadingSplits(s) # {} /\ FirstHeading(HeadingTitle(s)) # NoHeading
         THEN FirstHeading(HeadingTitle(s))
    ELSE IF \E k \in 1..Len(s) : s[k] \in MetadataTags THEN METADATA
    ELSE IF SectionSplits(s) # {} THEN SECTION
    ELSE REGULAR

\* a classifier that rejects blank lines, as its docstring announces
get_line_type_BlankRaises(s) ==
    IF s = None \/ StripWS(s) = <<>> THEN RaisesValueError
    ELSE IF HeadingSplits(s) # {} /\ FirstHeading(HeadingTitle(s)) # NoHeading
         THEN FirstHeading(HeadingTitle(s))
    ELSE IF StartsWithTag(s) THEN METADATA
    ELSE IF SectionSplits(s) # {} THEN SECTION
    ELSE REGULAR

get_line_type(s) ==
    IF s = None THEN RaisesValueError
    ELSE IF StripWS(s) = <<>> THEN REGULAR
    ELSE IF HeadingSplits(s) # {} /\ FirstHeading(HeadingTitle(s)) # NoHeading
         THEN FirstHeading(HeadingTitle(s))
    ELSE IF StartsWithTag(s) THEN METADATA
    ELSE IF SectionSplits(s) # {} THEN SECTION
    ELSE REGULAR

-----------------------------------------------------------------------------
(* get_section_properties *)

ValueError(msg) == [kind |-> "ValueError", msg |-> msg]

\* the dict with group(2) as matched, without .strip()
get_section_properties_Untrimmed(s) ==
    IF s = None THEN ValueError("Line cannot be None")
    ELSE IF StripWS(s) = <<>> THEN ValueError("Line cannot be empty")
    ELSE IF SectionSplits(s) = {} THEN ValueError("This is not a valid section line")
    ELSE LET m == SectionMatch(s)
         IN  [kind |-> "ok",
              section_num |-> StripWS(SubSeq(s, m[2] + 1, m[3])),
              section_text |-> SubSeq(s, m[4] + 1, Len(s))]

\* the dict returned, or the exception raised
get_section_properties(s) ==
    IF s = None THEN ValueError("Line cannot be None")
    ELSE IF StripWS(s) = <<>> THEN ValueError("Line cannot be empty")
    ELSE IF SectionSplits(s) = {} THEN ValueError("This is not a valid section line")
    ELSE LET m == SectionMatch(s)
         IN  [kind |-> "ok",
              section_num |-> StripWS(SubSeq(s, m[2] + 1, m[3])),
              section_text |-> StripWS(SubSeq(s, m[4] + 1, Len(s)))]

-----------------------------------------------------------------------------
(* The lines the documents are made of *)

TagLine == <<"<SHEM>", "T">>
ClosedTagLine == <<"<SHEM>", "T", "</SHEM>">>
SourceLine == <<"<MAKOR>", "x">>
PartLine == <<"=", " ", "HELEK", " ", "=">>
Part2Line == <<"=", "HELEK", "2", "=">>
ChapterLine == <<"=", "=", "PEREK", "=", "=">>
SignLine == <<"=", "=", "=", "SIMAN", "=", "=", "=">>
AddendumLine == <<"=", "TOSEFET", "=">>
Section1Line == <<"@", " ", "1", ".", " ", "a">>
Section2Line == <<"@", "2", ".", "b">>
EmptySectionLine == <<"@", "2", ".">>
RegularLine == <<"x">>
BlankLine == <<" ">>
EmptyLine == <<>>

\* lines of every category, for the short documents
SampleLines == {TagLine, ClosedTagLine, SourceLine, PartLine, ChapterLine, SignLine,
                AddendumLine, Section1Line, Section2Line, EmptySectionLine,
                RegularLine, BlankLine, EmptyLine}

\* the structural lines, for the longer documents
CoreLines == {SourceLine, PartLine, Part2Line, ChapterLine, SignLine, AddendumLine,
              Section1Line, RegularLine}

\* get_line_type on the lines of the documents, computed once
LineTypeTable == [s \in SampleLines \cup CoreLines |-> get_line_type(s)]

\* get_section_properties on the lines of the documents, computed once
SectionPropertiesTable == [s \in SampleLines \cup CoreLines |-> get_section_properties(s)]

\* get_section_properties(s), looked up when s is a line of a document
SectionPropertiesOf(s) ==
    IF s \in DOMAIN SectionPropertiesTable THEN SectionPropertiesTable[s]
    ELSE get_section_properties(s)

\* get_line_type(s), looked up when s is a line of a document
LineTypeOf(s) == IF s \in DOMAIN LineTypeTable THEN LineTypeTable[s] ELSE get_line_type(s)

-----------------------------------------------------------------------------
(* WikiSectionParser.parse *)

NoError == [kind |-> "none", msg |-> ""]

InvalidDocumentError(msg) == [kind |-> "InvalidDocumentError", msg |-> msg]

\* the sentinel string 'metadata' that parse stores in current_part
MetadataSentinel == <<"m", "e", "t", "a", "d", "a", "t", "a">>

\* the name after the last law-name tag of the document instead of the first
LawName_LastTag(doc) ==
    LET n == Len(doc)
        Qs(p) == {q \in p..(n - 1) : AllIn(doc, p + 1, q, Whitespace) /\ doc[q + 1] # NL}
        starts == {p \in 1..n : doc[p] = "<SHEM>" /\ Qs(p) # {}}
    IN  IF starts = {} THEN None
        ELSE LET p == MaxOf(starts)
                 q == MaxOf(Qs(p))
                 e == MaxOf({k \in (q + 1)..n : \A m \in (q + 1)..k : doc[m] # NL})
             IN  StripWS(SubSeq(doc, q + 1, e))

\* re.search(r"<SHEM>\s*(.+)", document), then group(1).strip(); None without a
\* match.  \s* also runs over line breaks, and gives characters back when
\* nothing is left for (.+); "." stops at a line break.
LawName(doc) ==
    LET n == Len(doc)
        Qs(p) == {q \in p..(n - 1) : AllIn(doc, p + 1, q, Whitespace) /\ doc[q + 1] # NL}
        starts == {p \in 1..n : doc[p] = "<SHEM>" /\ Qs(p) # {}}
    IN  IF starts = {} THEN None
        ELSE LET p == MinOf(starts)
                 q == MaxOf(Qs(p))
                 e == MaxOf({k \in (q + 1)..n : \A m \in (q + 1)..k : doc[m] # NL})
             IN  StripWS(SubSeq(doc, q + 1, e))

\* inner loops that move the cursor without `chunk += lines[lineIdx]`
RECURSIVE Accumulate_DropsLines(_, _, _, _)
Accumulate_DropsLines(ls, idx, chunk, stop) ==
    IF idx < Len(ls) /\ LineTypeOf(ls[idx + 1]) \notin stop
    THEN Accumulate_DropsLines(ls, idx + 1, chunk, stop)
    ELSE [lineIdx |-> idx, chunk |-> chunk]

\* the inner loops `while lineIdx < len(lines) and get_line_type(lines[lineIdx])
\* not in stop_tags[...]: chunk += lines[lineIdx]; lineIdx += 1`
RECURSIVE Accumulate(_, _, _, _)
Accumulate(ls, idx, chunk, stop) ==
    IF idx < Len(ls) /\ LineTypeOf(ls[idx + 1]) \notin stop
    THEN Accumulate(ls, idx + 1, chunk \o ls[idx + 1], stop)
    ELSE [lineIdx |-> idx, chunk |-> chunk]

\* The branches of the outer loop's body.  c is the walk's context
\* [lineIdx, part, chapter, sign, section]; each branch gives the context after
\* it and the chunk it built.  MetadataBranch_OneLine is the METADATA branch
\* without its inner loop: one block per tag line.
MetadataBranch_OneLine(ls, c) ==
    [lineIdx |-> c.lineIdx + 1, part |-> MetadataSentinel, chapter |-> None,
     sign |-> None, section |-> None, chunk |-> ls[c.lineIdx + 1]]

MetadataBranch(ls, c) ==
    LET acc == Accumulate(ls, c.lineIdx + 1, ls[c.lineIdx + 1], stop_tags(METADATA))
    IN  [lineIdx |-> acc.lineIdx, part |-> MetadataSentinel, chapter |-> None,
         sign |-> None, section |-> None, chunk |-> acc.chunk]

\* the ADDENDUM branch with the inner loop of the SECTION branch: the block
\* of an addendum ends at the first heading or section
AddendumBranch_StopsAtSection(ls, c) ==
    LET acc == Accumulate(ls, c.lineIdx + 1, ls[c.lineIdx + 1], stop_tags(SECTION))
    IN  [lineIdx |-> acc.lineIdx,
         part |-> Strip(ls[c.lineIdx + 1], HeadingStripChars), chapter |-> None,
         sign |-> None, section |-> None, chunk |-> acc.chunk]

\* the ADDENDUM branch that leaves current_section as it was
AddendumBranch_KeepsSection(ls, c) ==
    LET acc == Accumulate(ls, c.lineIdx + 1, ls[c.lineIdx + 1], stop_tags(ADDENDUM))
    IN  [lineIdx |-> acc.lineIdx,
         part |-> Strip(ls[c.lineIdx + 1], HeadingStripChars), chapter |-> None,
         sign |-> None, section |-> c.section, chunk |-> acc.chunk]

AddendumBranch(ls, c) ==
    LET acc == Accumulate(ls, c.lineIdx + 1, ls[c.lineIdx + 1], stop_tags(ADDENDUM))
    IN  [lineIdx |-> acc.lineIdx,
         part |-> Strip(ls[c.lineIdx + 1], HeadingStripChars), chapter |-> None,
         sign |-> None, section |-> None, chunk |-> acc.chunk]

\* the PART branch without `current_chapter = current_sign = current_section = None`
PartBranch_KeepsChapter(ls, c) ==
    [lineIdx |-> c.lineIdx + 1,
     part |-> Strip(ls[c.lineIdx + 1], HeadingStripChars), chapter |-> c.chapter,
     sign |-> c.sign, section |-> c.section, chunk |-> <<>>]

PartBranch(ls, c) ==
    [lineIdx |-> c.lineIdx + 1,
     part |-> Strip(ls[c.lineIdx + 1], HeadingStripChars), chapter |-> None,
     sign |-> None, section |-> None, chunk |-> <<>>]

\* the CHAPTER branch without `current_sign = current_section = None`
ChapterBranch_KeepsSign(ls, c) ==
    [lineIdx |-> c.lineIdx + 1,
     part |-> IF c.part = MetadataSentinel THEN None ELSE c.part,
     chapter |-> Strip(ls[c.lineIdx + 1], HeadingStripChars),
     sign |-> c.sign, section |-> c.section, chunk |-> <<>>]

\* the CHAPTER branch without `if current_part == 'metadata': current_part = None`
ChapterBranch_KeepsSentinel(ls, c) ==
    [lineIdx |-> c.lineIdx + 1,
     part |-> c.part,
     chapter |-> Strip(ls[c.lineIdx + 1], HeadingStripChars),
     sign |-> None, section |-> None, chunk |-> <<>>]

ChapterBranch(ls, c) ==
    [lineIdx |-> c.lineIdx + 1,
     part |-> IF c.part = MetadataSentinel THEN None ELSE c.part,
     chapter |-> Strip(ls[c.lineIdx + 1], HeadingStripChars),
     sign |-> None, section |-> None, chunk |-> <<>>]

\* the SIGN branch without `lineIdx+=1`
SignBranch_NoAdvance(ls, c) ==
    [lineIdx |-> c.lineIdx,
     part |-> IF c.part = MetadataSentinel THEN None ELSE c.part,
     chapter |-> c.chapter,
     sign |-> Strip(ls[c.lineIdx + 1], HeadingStripChars),
     section |-> None, chunk |-> <<>>]

SignBranch(ls, c) ==
    [lineIdx |-> c.lineIdx + 1,
     part |-> IF c.part = MetadataSentinel THEN None ELSE c.part,
     chapter |-> c.chapter,
     sign |-> Strip(ls[c.lineIdx + 1], HeadingStripChars),
     section |-> None, chunk |-> <<>>]

\* the SECTION branch with the cursor left behind the section line: the lines
\* its inner loop absorbed are walked again
\* the SECTION branch without `if current_part == 'metadata': current_part = None`
SectionBranch_KeepsSentinel(ls, c) ==
    LET prop == SectionPropertiesOf(ls[c.lineIdx + 1])
        acc == Accumulate(ls, c.lineIdx + 1, prop.section_text, stop_tags(SECTION))
    IN  [lineIdx |-> acc.lineIdx, part |-> c.part,
         chapter |-> c.chapter, sign |-> c.sign,
         section |-> prop.section_num, chunk |-> acc.chunk]

SectionBranch_NoSkip(ls, c) ==
    LET prop == SectionPropertiesOf(ls[c.lineIdx + 1])
        acc == Accumulate(ls, c.lineIdx + 1, prop.section_text, stop_tags(SECTION))
    IN  [lineIdx |-> c.lineIdx + 1,
         part |-> IF c.part = MetadataSentinel THEN None ELSE c.part,
         chapter |-> c.chapter, sign |-> c.sign,
         section |-> prop.section_num, chunk |-> acc.chunk]

SectionBranch(ls, c) ==
    LET prop == SectionPropertiesOf(ls[c.lineIdx + 1])
        acc == Accumulate(ls, c.lineIdx + 1, prop.section_text, stop_tags(SECTION))
    IN  [lineIdx |-> acc.lineIdx,
         part |-> IF c.part = MetadataSentinel THEN None ELSE c.part,
         chapter |-> c.chapter, sign |-> c.sign,
         section |-> prop.section_num, chunk |-> acc.chunk]

\* the regular branch with `chunk = line.strip()`
RegularBranch_Stripped(ls, c) ==
    [lineIdx |-> c.lineIdx + 1, part |-> c.part, chapter |-> c.chapter,
     sign |-> c.sign, section |-> c.section, chunk |-> StripWS(ls[c.lineIdx + 1])]

RegularBranch(ls, c) ==
    [lineIdx |-> c.lineIdx + 1, part |-> c.part, chapter |-> c.chapter,
     sign |-> c.sign, section |-> c.section, chunk |-> ls[c.lineIdx + 1]]

\* the if/elif chain on line_type
Branch(t, ls, c) ==
    CASE t = METADATA -> MetadataBranch(ls, c)
      [] t = ADDENDUM -> AddendumBranch(ls, c)
      [] t = PART -> PartBranch(ls, c)
      [] t = CHAPTER -> ChapterBranch(ls, c)
      [] t = SIGN -> SignBranch(ls, c)
      [] t = SECTION -> SectionBranch(ls, c)
      [] OTHER -> RegularBranch(ls, c)

\* the dict packed after the branch
Block(law, c) ==
    [law_name |-> law, part |-> c.part, chapter |-> c.chapter, sign |-> c.sign,
     section |-> c.section, text |-> c.chunk]

\* `if chunk` without `and chunk.strip()`
Keeps_NoStrip(chunk) == chunk # <<>>

\* `if chunk and chunk.strip()`
Keeps(chunk) == chunk # <<>> /\ StripWS(chunk) # <<>>

\* result after the block of one iteration was packed
Appended(res, law, c) == IF Keeps(c.chunk) THEN Append(res, Block(law, c)) ELSE res

\* `if not document` in place of `if not document.strip()`
IsBlank_NoStrip(doc) == doc = <<>>

\* `if not document.strip()`
IsBlank(doc) == StripWS(doc) = <<>>

\* the outer loop, run to its end: the blocks of result
RECURSIVE Walk(_, _, _, _)
Walk(ls, law, c, res) ==
    IF c.lineIdx < Len(ls)
    THEN LET nc == Branch(LineTypeOf(ls[c.lineIdx + 1]), ls, c)
         IN  Walk(ls, law, nc, Appended(res, law, nc))
    ELSE res

StartContext == [lineIdx |-> 0, part |-> None, chapter |-> None, sign |-> None,
                 section |-> None]

\* parse as a function of its argument: the exception raised (kind, msg) and
\* the list returned
Parse(doc) ==
    IF doc = None THEN [raised |-> ValueError("Document cannot be None"), blocks |-> <<>>]
    ELSE IF IsBlank(doc)
         THEN [raised |-> ValueError("Document cannot be empty"), blocks |-> <<>>]
    ELSE LET res == Walk(splitlines(doc), LawName(doc), StartContext, <<>>)
         IN  IF res = <<>>
             THEN [raised |-> InvalidDocumentError("No valid content blocks found in document"),
                   blocks |-> <<>>]
             ELSE [raised |-> NoError, blocks |-> res]

-----------------------------------------------------------------------------
(* The inputs *)

MaxLines == 3

MaxDeepLines == 4

MaxLineLen == 4

\* "\n".join(ls)
RECURSIVE JoinLines(_)
JoinLines(ls) ==
    IF ls = <<>> THEN <<>>
    ELSE IF Len(ls) = 1 THEN ls[1]
    ELSE ls[1] \o <<NL>> \o JoinLines(Tail(ls))

\* headings written with tabs around the title, and a section under them
TabPartLine == <<"=", "\t", "HELEK", "\t", "=">>
TabChapterLine == <<"=", "=", "\t", "PEREK", " ", "=", "=">>
TabSignLine == <<"=", "=", "=", "SIMAN", "\t", "=", "=", "=">>

TabLines == {TabPartLine, TabChapterLine, TabSignLine, Section1Line}

\* a part heading whose title begins with the word parse uses as its sentinel,
\* with a tag line, a chapter heading and a section around it
NamedMetadataLine == <<"=">> \o MetadataSentinel \o <<"HELEK", "=">>

NamedMetadataLines == {SourceLine, NamedMetadataLine, ChapterLine, Section1Line}

\* doc is one of the documents parse is called on
IsDocument(doc) ==
    \/ \E k \in 0..MaxLines : \E ls \in [1..k -> SampleLines] : doc = JoinLines(ls)
    \/ \E k \in 0..MaxDeepLines : \E ls \in [1..k -> CoreLines] : doc = JoinLines(ls)
    \/ \E k \in 1..MaxLines : \E ls \in [1..k -> TabLines] : doc = JoinLines(ls)
    \/ \E k \in 1..MaxLines : \E ls \in [1..k -> NamedMetadataLines] : doc = JoinLines(ls)
    \/ doc = None

\* the characters the classifier's input lines are drawn from
Alphabet == {"=", " ", "@", ".", "1", "x", "<SHEM>", "TOSEFET", "HELEK", "PEREK", "SIMAN"}

\* the section lines of TestGetSectionProperties: text after the number, a
\* dash in the number, nothing but a space after the number, and a line that
\* ends in a space
SectionTestLines ==
    {<<"@", " ", "1", ".", " ", "x", " ", "x", ".">>,
     <<"@", " ", "1", "-", "1", ".", " ", "x", ".">>,
     <<"@", " ", "1", ".", " ">>,
     <<"@", " ", "1", ".", " ", "x", " ", "x", " ">>}

\* s is one of the lines the classifier is called on
IsInputLine(s) ==
    \/ \E k \in 0..MaxLineLen : \E cs \in [1..k -> Alphabet] : s = cs
    \/ s \in SectionTestLines
    \/ s = None

-----------------------------------------------------------------------------
(* Specification of one call of parse *)

\* line_type before get_line_type has returned
NotCalled == "NotCalled"

ClassifierIdle ==
    /\ line = <<>> /\ cpc = "idle" /\ line_type = NotCalled /\ section_prop = NoError

ParseIdle ==
    /\ document = <<>> /\ pc = "idle" /\ raised = NoError /\ law_name = None
    /\ lines = <<>> /\ lineIdx = 0 /\ current_part = None /\ current_chapter = None
    /\ current_sign = None /\ current_section = None /\ result = <<>> /\ origin = <<>>

\* returned is the empty list until parse_many returns (mpc = "done")
ManyIdle ==
    /\ documents = <<>> /\ doc_i = 0 /\ results = <<>> /\ failed_docs = <<>>
    /\ mpc = "idle" /\ returned = <<>> /\ batch_raised = NoError

FetchIdle ==
    /\ resource = <<>> /\ retries = 0 /\ attempt = 0 /\ fpc = "idle"
    /\ fetch_returned = None /\ fetch_raised = NoError /\ fetch_log = <<>>

Init ==
    /\ IsDocument(document)
    /\ pc = "start"
    /\ raised = NoError
    /\ law_name = None
    /\ lines = <<>>
    /\ lineIdx = 0
    /\ current_part = None
    /\ current_chapter = None
    /\ current_sign = None
    /\ current_section = None
    /\ result = <<>>
    /\ origin = <<>>
    /\ ClassifierIdle
    /\ ManyIdle
    /\ FetchIdle

Raise(e) ==
    /\ raised' = e
    /\ pc' = "done"
    /\ UNCHANGED <<document, law_name, lines, lineIdx, current_part, current_chapter,
                   current_sign, current_section, result, origin>>

\* `if document is None: raise ValueError`
StartNone ==
    /\ pc = "start"
    /\ document = None
    /\ Raise(ValueError("Document cannot be None"))
    /\ UNCHANGED classifyVars
    /\ UNCHANGED manyVars
    /\ UNCHANGED fetchVars

\* `if not document.strip(): raise ValueError`
StartEmpty ==
    /\ pc = "start"
    /\ document # None
    /\ IsBlank(document)
    /\ Raise(ValueError("Document cannot be empty"))
    /\ UNCHANGED classifyVars
    /\ UNCHANGED manyVars
    /\ UNCHANGED fetchVars

\* a start of the walk that leaves the context of the previous call in place
StartWalk_KeepsContext ==
    /\ pc = "start"
    /\ document # None
    /\ ~IsBlank(document)
    /\ law_name' = LawName(document)
    /\ lines' = splitlines(document)
    /\ lineIdx' = 0
    /\ result' = <<>>
    /\ origin' = <<>>
    /\ pc' = "walk"
    /\ UNCHANGED <<document, raised, current_part, current_chapter, current_sign,
                   current_section>>
    /\ UNCHANGED classifyVars
    /\ UNCHANGED manyVars
    /\ UNCHANGED fetchVars

\* result = [], the law name, lines = document.splitlines(), the context, lineIdx = 0
StartWalk ==
    /\ pc = "start"
    /\ document # None
    /\ ~IsBlank(document)
    /\ law_name' = LawName(document)
    /\ lines' = splitlines(document)
    /\ lineIdx' = 0
    /\ current_part' = None
    /\ current_chapter' = None
    /\ current_sign' = None
    /\ current_section' = None
    /\ result' = <<>>
    /\ origin' = <<>>
    /\ pc' = "walk"
    /\ UNCHANGED <<document, raised>>
    /\ UNCHANGED classifyVars
    /\ UNCHANGED manyVars
    /\ UNCHANGED fetchVars

Context == [lineIdx |-> lineIdx, part |-> current_part, chapter |-> current_chapter,
            sign |-> current_sign, section |-> current_section]

\* the loop condition and `line_type = get_line_type(lines[lineIdx])`
AtLine(t) ==
    /\ pc = "walk"
    /\ lineIdx < Len(lines)
    /\ LineTypeOf(lines[lineIdx + 1]) = t

\* the rest of one iteration: the branch's assignments, `#Pack` and the append
Iterate(t, nc) ==
    /\ lineIdx' = nc.lineIdx
    /\ current_part' = nc.part
    /\ current_chapter' = nc.chapter
    /\ current_sign' = nc.sign
    /\ current_section' = nc.section
    /\ result' = Appended(result, law_name, nc)
    /\ origin' = IF Keeps(nc.chunk)
                 THEN Append(origin, [first |-> lineIdx, last |-> nc.lineIdx - 1,
                                      opener |-> t])
                 ELSE origin
    /\ UNCHANGED <<document, pc, raised, law_name, lines>>
    /\ UNCHANGED classifyVars
    /\ UNCHANGED manyVars
    /\ UNCHANGED fetchVars

StepMetadata ==
    /\ AtLine(METADATA)
    /\ Iterate(METADATA, MetadataBranch(lines, Context))

\* an addendum heading handled as a part heading: no inner loop
StepAddendum_AsPart ==
    /\ AtLine(ADDENDUM)
    /\ Iterate(ADDENDUM, PartBranch(lines, Context))

StepAddendum ==
    /\ AtLine(ADDENDUM)
    /\ Iterate(ADDENDUM, AddendumBranch(lines, Context))

StepPart ==
    /\ AtLine(PART)
    /\ Iterate(PART, PartBranch(lines, Context))

StepChapter ==
    /\ AtLine(CHAPTER)
    /\ Iterate(CHAPTER, ChapterBranch(lines, Context))

StepSign ==
    /\ AtLine(SIGN)
    /\ Iterate(SIGN, SignBranch(lines, Context))

StepSection ==
    /\ AtLine(SECTION)
    /\ Iterate(SECTION, SectionBranch(lines, Context))

StepRegular ==
    /\ AtLine(REGULAR)
    /\ Iterate(REGULAR, RegularBranch(lines, Context))

\* `if not result: raise InvalidDocumentError`
FinishNoContent ==
    /\ pc = "walk"
    /\ ~(lineIdx < Len(lines))
    /\ result = <<>>
    /\ Raise(InvalidDocumentError("No valid content blocks found in document"))
    /\ UNCHANGED classifyVars
    /\ UNCHANGED manyVars
    /\ UNCHANGED fetchVars

\* `return result`
FinishReturn ==
    /\ pc = "walk"
    /\ ~(lineIdx < Len(lines))
    /\ result # <<>>
    /\ pc' = "done"
    /\ UNCHANGED <<document, raised, law_name, lines, lineIdx, current_part,
                   current_chapter, current_sign, current_section, result, origin>>
    /\ UNCHANGED classifyVars
    /\ UNCHANGED manyVars
    /\ UNCHANGED fetchVars

Next ==
    \/ StartNone
    \/ StartEmpty
    \/ StartWalk
    \/ StepMetadata
    \/ StepAddendum
    \/ StepPart
    \/ StepChapter
    \/ StepSign
    \/ StepSection
    \/ StepRegular
    \/ FinishNoContent
    \/ FinishReturn

Spec == Init /\ [][Next]_vars

\* One call of parse that is not suspended: the interpreter goes on to the
\* next statement for as long as there is one.  The documents are the short
\* ones made of one line of every category and of a section without text.
MaxRunLines == 2

RunLines == (CoreLines \ {Part2Line}) \cup {EmptySectionLine}

IsRunDocument(doc) ==
    \/ \E k \in 0..MaxRunLines :
           \E ls \in [1..k -> RunLines] : doc = JoinLines(ls)
    \/ doc = None

InitRuns ==
    /\ IsRunDocument(document)
    /\ pc = "start"
    /\ raised = NoError
    /\ law_name = None
    /\ lines = <<>>
    /\ lineIdx = 0
    /\ current_part = None
    /\ current_chapter = None
    /\ current_sign = None
    /\ current_section = None
    /\ result = <<>>
    /\ origin = <<>>
    /\ ClassifierIdle
    /\ ManyIdle
    /\ FetchIdle

SpecRuns == InitRuns /\ [][Next]_vars /\ WF_vars(Next)

-----------------------------------------------------------------------------
(* Specification of one call of parse whose helpers may raise *)

\* get_line_type and get_section_properties are looked up by name at every
\* call: the tests replace them by functions that raise.  What is raised is an
\* Exception or a ValueError.
Causes == {"Exception", "ValueError"}

\* the inner handler: ValueError passes unchanged, anything else becomes
\* ParserError("Unexpected error parsing line {lineIdx}: {e}")
LineFailure(at, e) ==
    IF e = "ValueError"
    THEN [kind |-> "ValueError", msg |-> "", at |-> at, cause |-> e]
    ELSE [kind |-> "ParserError", msg |-> "Unexpected error parsing line",
          at |-> at, cause |-> e]

\* SectionParsingError("Failed to parse section at line {lineIdx}: {e}"), which
\* both handlers pass unchanged
SectionParsingError(at, e) ==
    [kind |-> "SectionParsingError", msg |-> "Failed to parse section at line",
     at |-> at, cause |-> e]

\* the locals at the moment the exception leaves parse: nothing is appended
Abort(nc, e) ==
    /\ raised' = e
    /\ pc' = "done"
    /\ lineIdx' = nc.lineIdx
    /\ current_part' = nc.part
    /\ current_chapter' = nc.chapter
    /\ current_sign' = nc.sign
    /\ current_section' = nc.section
    /\ UNCHANGED <<document, law_name, lines, result, origin>>
    /\ UNCHANGED classifyVars
    /\ UNCHANGED manyVars
    /\ UNCHANGED fetchVars

\* `line_type = get_line_type(line)` raises
FailClassify ==
    /\ pc = "walk"
    /\ lineIdx < Len(lines)
    /\ \E e \in Causes : Abort(Context, LineFailure(lineIdx, e))

\* get_line_type raises in the condition of an inner loop, on line j: the
\* branch has assigned the context and absorbed the lines before j
FailLookAhead ==
    /\ pc = "walk"
    /\ lineIdx < Len(lines)
    /\ LineTypeOf(lines[lineIdx + 1]) \in {METADATA, ADDENDUM, SECTION}
    /\ \E j \in (lineIdx + 1)..(Len(lines) - 1), e \in Causes :
           \E nc \in {Branch(LineTypeOf(lines[lineIdx + 1]), SubSeq(lines, 1, j), Context)} :
               /\ nc.lineIdx = j
               /\ Abort(nc, LineFailure(j, e))

\* a failure of get_section_properties that parse swallows, going on with the
\* next line
FailExtract_Skips ==
    /\ AtLine(SECTION)
    /\ Iterate(SECTION, [RegularBranch(lines, Context) EXCEPT !.chunk = <<>>])

\* `prop = get_section_properties(line)` raises
FailExtract ==
    /\ AtLine(SECTION)
    /\ \E e \in Causes : Abort(Context, SectionParsingError(lineIdx, e))

NextFaulty ==
    \/ Next
    \/ FailClassify
    \/ FailLookAhead
    \/ FailExtract

SpecFaulty == InitRuns /\ [][NextFaulty]_vars

-----------------------------------------------------------------------------
(* Specification of one call of get_line_type and get_section_properties *)

InitClassify ==
    /\ IsInputLine(line)
    /\ cpc = "call"
    /\ line_type = NotCalled
    /\ section_prop = NoError
    /\ ParseIdle
    /\ ManyIdle
    /\ FetchIdle

\* line_type = get_line_type(line)
Classify ==
    /\ cpc = "call"
    /\ line_type' = get_line_type(line)
    /\ cpc' = "classified"
    /\ UNCHANGED <<line, section_prop>>
    /\ UNCHANGED parseVars
    /\ UNCHANGED manyVars
    /\ UNCHANGED fetchVars

\* prop = get_section_properties(line)
Extract ==
    /\ cpc = "classified"
    /\ section_prop' = get_section_properties(line)
    /\ cpc' = "ret"
    /\ UNCHANGED <<line, line_type>>
    /\ UNCHANGED parseVars
    /\ UNCHANGED manyVars
    /\ UNCHANGED fetchVars

NextClassify == Classify \/ Extract

SpecClassify == InitClassify /\ [][NextClassify]_vars

-----------------------------------------------------------------------------
(* Specification of one call of parse_many on a list of documents *)

MaxDocs == 4

\* a document with a line of every category but Metadata, and no law name
DocStructured ==
    JoinLines(<<RegularLine, PartLine, ChapterLine, SignLine, Section1Line, AddendumLine>>)

\* the documents of the batches: the minimal document of the tests, the
\* structured one, a lone part heading (no block), the empty string and None
BatchDocuments ==
    {JoinLines(<<TagLine, Section1Line, Section2Line>>), DocStructured,
     PartLine, EmptyLine, None}

\* ds is one of the lists parse_many is called on
IsBatch(ds) == \E k \in 0..MaxDocs : \E f \in [1..k -> BatchDocuments] : ds = f

ParserError(msg, sample) == [kind |-> "ParserError", msg |-> msg, sample |-> sample]

\* failed_docs in full
FirstThree_All(s) == s

\* failed_docs[:3]
FirstThree(s) == SubSeq(s, 1, IF Len(s) < 3 THEN Len(s) ELSE 3)

InitMany ==
    /\ IsBatch(documents)
    /\ mpc = "start"
    /\ doc_i = 0
    /\ results = <<>>
    /\ failed_docs = <<>>
    /\ returned = <<>>
    /\ batch_raised = NoError
    /\ ParseIdle
    /\ ClassifierIdle
    /\ FetchIdle

\* `if not documents: return []`
ManyEmpty ==
    /\ mpc = "start"
    /\ documents = <<>>
    /\ returned' = <<>>
    /\ mpc' = "done"
    /\ UNCHANGED <<documents, doc_i, results, failed_docs, batch_raised>>
    /\ UNCHANGED parseVars
    /\ UNCHANGED classifyVars
    /\ UNCHANGED fetchVars

\* results = []; failed_docs = []; the loop is entered with i = 0
ManyStart ==
    /\ mpc = "start"
    /\ documents # <<>>
    /\ results' = <<>>
    /\ failed_docs' = <<>>
    /\ doc_i' = 0
    /\ mpc' = "loop"
    /\ UNCHANGED <<documents, returned, batch_raised>>
    /\ UNCHANGED parseVars
    /\ UNCHANGED classifyVars
    /\ UNCHANGED fetchVars

\* `res = WikiSectionParser.parse(document)`: the call is entered; the locals
\* of parse keep what the previous call left until parse assigns them
CallParse ==
    /\ mpc = "loop"
    /\ doc_i < Len(documents)
    /\ document' = documents[doc_i + 1]
    /\ pc' = "start"
    /\ raised' = NoError
    /\ mpc' = "parse"
    /\ UNCHANGED <<law_name, lines, lineIdx, current_part, current_chapter,
                   current_sign, current_section, result, origin>>
    /\ UNCHANGED <<documents, doc_i, results, failed_docs, returned, batch_raised>>
    /\ UNCHANGED classifyVars
    /\ UNCHANGED fetchVars

\* parse returned: `results.append(res)`
CollectResult ==
    /\ mpc = "parse"
    /\ pc = "done"
    /\ raised = NoError
    /\ results' = Append(results, result)
    /\ doc_i' = doc_i + 1
    /\ mpc' = "loop"
    /\ UNCHANGED <<documents, failed_docs, returned, batch_raised>>
    /\ UNCHANGED parseVars
    /\ UNCHANGED classifyVars
    /\ UNCHANGED fetchVars

\* parse raised: `failed_docs.append({'index': i, 'error': str(e)}); continue`
CollectFailure ==
    /\ mpc = "parse"
    /\ pc = "done"
    /\ raised # NoError
    /\ failed_docs' = Append(failed_docs, [index |-> doc_i, error |-> raised.msg])
    /\ doc_i' = doc_i + 1
    /\ mpc' = "loop"
    /\ UNCHANGED <<documents, results, returned, batch_raised>>
    /\ UNCHANGED parseVars
    /\ UNCHANGED classifyVars
    /\ UNCHANGED fetchVars

\* `if not results and failed_docs: raise ParserError(... failed_docs[:3])`
ManyRaise ==
    /\ mpc = "loop"
    /\ ~(doc_i < Len(documents))
    /\ results = <<>> /\ failed_docs # <<>>
    /\ batch_raised' = ParserError("Failed to parse any documents", FirstThree(failed_docs))
    /\ mpc' = "done"
    /\ UNCHANGED <<documents, doc_i, results, failed_docs, returned>>
    /\ UNCHANGED parseVars
    /\ UNCHANGED classifyVars
    /\ UNCHANGED fetchVars

\* `return results`: failed_docs is a local and goes out of scope
ManyReturn ==
    /\ mpc = "loop"
    /\ ~(doc_i < Len(documents))
    /\ ~(results = <<>> /\ failed_docs # <<>>)
    /\ returned' = results
    /\ mpc' = "done"
    /\ UNCHANGED <<documents, doc_i, results, failed_docs, batch_raised>>
    /\ UNCHANGED parseVars
    /\ UNCHANGED classifyVars
    /\ UNCHANGED fetchVars

NextMany ==
    \/ ManyEmpty
    \/ ManyStart
    \/ CallParse
    \/ Next
    \/ CollectResult
    \/ CollectFailure
    \/ ManyRaise
    \/ ManyReturn

SpecMany == InitMany /\ [][NextMany]_vars

-----------------------------------------------------------------------------
(* Specification of one call of WikiFetcher.fetch_one *)

MaxRetries == 3

\* the resource names fetch_one is called on
Resources == {None, <<>>, <<" ">>, <<"x">>, <<"x", " ", "x">>}

\* the text of the element wpTextbox1 of a page
Content == <<"T">>

NetworkError(cause) ==
    [kind |-> "NetworkError", msg |-> "Failed to fetch resource", cause |-> cause]

ParseError(cause) ==
    [kind |-> "ParseError", msg |-> "Failed to parse HTML content", cause |-> cause]

FetcherError(cause) ==
    [kind |-> "FetcherError", msg |-> "Unexpected error fetching resource", cause |-> cause]

InitFetch ==
    /\ resource \in Resources
    /\ retries \in 0..MaxRetries
    /\ attempt = 0
    /\ fpc = "start"
    /\ fetch_returned = None
    /\ fetch_raised = NoError
    /\ fetch_log = <<>>
    /\ ParseIdle
    /\ ClassifierIdle
    /\ ManyIdle

\* `not resource or not resource.strip()`
NoResource(r) == r = None \/ StripWS(r) = <<>>

FetchEnd(ret, exc, what) ==
    /\ fetch_returned' = ret
    /\ fetch_raised' = exc
    /\ fetch_log' = Append(fetch_log, what)
    /\ fpc' = "done"
    /\ UNCHANGED <<resource, retries, attempt>>

\* `time.sleep(1)` and the next turn of `for attempt in range(retries)`
FetchRetry(what) ==
    /\ attempt' = attempt + 1
    /\ fetch_log' = Append(fetch_log, what)
    /\ fpc' = "loop"
    /\ UNCHANGED <<resource, retries, fetch_returned, fetch_raised>>

\* `raise ValueError("Resource name cannot be empty or None")`
FetchInvalid ==
    /\ fpc = "start"
    /\ NoResource(resource)
    /\ fetch_raised' = ValueError("Resource name cannot be empty or None")
    /\ fpc' = "done"
    /\ UNCHANGED <<resource, retries, attempt, fetch_returned, fetch_log>>
    /\ UNCHANGED parseVars
    /\ UNCHANGED classifyVars
    /\ UNCHANGED manyVars

\* the url and the headers are set; the loop starts with attempt = 0
FetchBegin ==
    /\ fpc = "start"
    /\ ~NoResource(resource)
    /\ attempt' = 0
    /\ fpc' = "loop"
    /\ UNCHANGED <<resource, retries, fetch_returned, fetch_raised, fetch_log>>
    /\ UNCHANGED parseVars
    /\ UNCHANGED classifyVars
    /\ UNCHANGED manyVars

\* requests.get and response.raise_for_status() go through
RequestOk ==
    /\ fpc = "loop"
    /\ attempt < retries
    /\ fpc' = "soup"
    /\ UNCHANGED <<resource, retries, attempt, fetch_returned, fetch_raised, fetch_log>>
    /\ UNCHANGED parseVars
    /\ UNCHANGED classifyVars
    /\ UNCHANGED manyVars

\* requests.get or raise_for_status raises a RequestException:
\* `except requests.RequestException`
RequestFails ==
    /\ fpc = "loop"
    /\ attempt < retries
    /\ IF attempt = retries - 1
       THEN FetchEnd(None, NetworkError("RequestException"), "RequestException")
       ELSE FetchRetry("RequestException")
    /\ UNCHANGED parseVars
    /\ UNCHANGED classifyVars
    /\ UNCHANGED manyVars

\* BeautifulSoup(response.text, "lxml") returns
SoupOk ==
    /\ fpc = "soup"
    /\ fpc' = "find"
    /\ UNCHANGED <<resource, retries, attempt, fetch_returned, fetch_raised, fetch_log>>
    /\ UNCHANGED parseVars
    /\ UNCHANGED classifyVars
    /\ UNCHANGED manyVars

\* BeautifulSoup raises: the inner handler raises ParseError inside the outer
\* try, whose `except Exception` catches it
SoupFails ==
    /\ fpc = "soup"
    /\ IF attempt = retries - 1
       THEN FetchEnd(None, FetcherError(ParseError("Exception")), "ParseError")
       ELSE FetchRetry("ParseError")
    /\ UNCHANGED parseVars
    /\ UNCHANGED classifyVars
    /\ UNCHANGED manyVars

\* soup.find(id='wpTextbox1') and get_text(strip=True): the text, or None when
\* the element is missing or its text is empty
FindContent ==
    /\ fpc = "find"
    /\ \E found \in {"text", "empty", "missing"} :
           FetchEnd(IF found = "text" THEN Content ELSE None, NoError, found)
    /\ UNCHANGED parseVars
    /\ UNCHANGED classifyVars
    /\ UNCHANGED manyVars

\* the loop is over without a return or a raise: `return None`
FetchExhausted ==
    /\ fpc = "loop"
    /\ ~(attempt < retries)
    /\ FetchEnd(None, NoError, "exhausted")
    /\ UNCHANGED parseVars
    /\ UNCHANGED classifyVars
    /\ UNCHANGED manyVars

NextFetch ==
    \/ FetchInvalid
    \/ FetchBegin
    \/ RequestOk
    \/ RequestFails
    \/ SoupOk
    \/ SoupFails
    \/ FindContent
    \/ FetchExhausted

SpecFetch == InitFetch /\ [][NextFetch]_vars

-----------------------------------------------------------------------------
(* Properties of parse *)

Blocks == 1..Len(result)

\* the document is a string of whitespace only
OnlyWhitespace(doc) == doc # None /\ \A k \in 1..Len(doc) : doc[k] \in Whitespace

\* number and remainder of a section line, read off the line: the line without
\* its leading "@", cut at the last "." of the token that follows
AfterMarker(s) == Strip(Tail(Strip(s, {" "})), {" "})

TokenRun(u) == MaxOf({k \in 0..Len(u) : AllIn(u, 1, k, SectionTokenChars)})

LastDot(u) == MaxOf({k \in 1..TokenRun(u) : u[k] = "."})

SectionNumber(s) == SubSeq(AfterMarker(s), 1, LastDot(AfterMarker(s)) - 1)

SectionRemainder(s) ==
    Strip(SubSeq(AfterMarker(s), LastDot(AfterMarker(s)) + 1, Len(AfterMarker(s))), {" "})

\* the block of a section that stands outside every part, chapter and sign
BareSectionBlock(law, s) ==
    [law_name |-> law, part |-> None, chapter |-> None, sign |-> None,
     section |-> SectionNumber(s), text |-> SectionRemainder(s)]

\* the block of a metadata line that absorbed nothing
BareMetadataBlock(law, s) ==
    [law_name |-> law, part |-> MetadataSentinel, chapter |-> None, sign |-> None,
     section |-> None, text |-> s]

\* a law-name tag line followed only by section lines
TagThenSections(ls) ==
    /\ Len(ls) >= 2
    /\ ls[1] \in {TagLine, ClosedTagLine}
    /\ \A k \in 2..Len(ls) : ls[k] \in {Section1Line, Section2Line, EmptySectionLine}

DocMinimal == JoinLines(<<TagLine, Section1Line, Section2Line>>)

\* the sections of ls whose remainder is not empty, in order
WithText(ls) == SelectSeq(ls, LAMBDA s : SectionRemainder(s) # <<>>)

\* C1 as stated: the three-line document (tag line, section 1, section 2)
\* yields exactly the two section blocks, and a tag line followed only by
\* section lines yields one block per section and nothing else.
C1_TwoBlocksOnly ==
    pc = "done" /\ document # None =>
        /\ document = DocMinimal =>
              result = <<BareSectionBlock(<<"T">>, Section1Line),
                         BareSectionBlock(<<"T">>, Section2Line)>>
        /\ TagThenSections(lines) => Len(result) = Len(lines) - 1

\* C1 (amended): the three-line document yields three blocks: first the
\* metadata block of the tag line itself (part 'metadata', text the raw tag
\* line), then the two section blocks; a tag line followed only by section
\* lines yields that metadata block and then one block per section whose
\* remainder is not empty, in order.
C1_MetadataBlockThenSections ==
    pc = "done" /\ document # None =>
        /\ document = DocMinimal =>
              result = <<BareMetadataBlock(<<"T">>, TagLine),
                         BareSectionBlock(<<"T">>, Section1Line),
                         BareSectionBlock(<<"T">>, Section2Line)>>
        /\ TagThenSections(lines) =>
              LET law == Tail(lines[1])
                  secs == WithText(Tail(lines))
              IN  /\ raised = NoError
                  /\ result = <<BareMetadataBlock(law, lines[1])>>
                              \o [k \in 1..Len(secs) |-> BareSectionBlock(law, secs[k])]

C1_Witness ==
    pc = "done" /\ document = DocMinimal /\ Len(result) = 3

\* C2 as stated: a document of blank lines only fails with
\* InvalidDocumentError ('No valid content blocks found').
C2_BlankLinesRaiseNoContent ==
    pc = "done" /\ OnlyWhitespace(document) /\ document # <<>> =>
        raised.kind = "InvalidDocumentError"

DocHierarchy == JoinLines(<<PartLine, ChapterLine, SignLine, Section1Line>>)

\* C4 as stated: the block of the section under Part -> Chapter -> Sign
\* carries the three heading lines exactly as written, "=" markers included.
C4_HeadingsVerbatim ==
    pc = "done" /\ document = DocHierarchy =>
        /\ Len(result) = 1
        /\ result[1].part = PartLine
        /\ result[1].chapter = ChapterLine
        /\ result[1].sign = SignLine

\* C5 as stated: with the law-name line <SHEM>T</SHEM> every block has
\* law_name T, the text between the opening and the closing tag.
C5_LawNameWithoutClosingTag ==
    pc = "done" /\ raised = NoError /\ lines[1] = ClosedTagLine =>
        \A n \in Blocks : result[n].law_name = <<"T">>

\* the block has no part, chapter, sign and section
NoStructure(b) ==
    b.part = None /\ b.chapter = None /\ b.sign = None /\ b.section = None

\* parse(text) returns exactly one block, with that text
OneBlockSameText(text) ==
    LET r == Parse(text)
    IN  r.raised = NoError /\ Len(r.blocks) = 1 /\ r.blocks[1].text = text

\* C6 as stated: parse applied to the text of any emitted block returns
\* exactly one block, with identical text and no part, chapter, sign, section.
C6_EveryBlockIdempotent ==
    pc = "done" =>
        \A n \in Blocks :
            /\ OneBlockSameText(result[n].text)
            /\ NoStructure(Parse(result[n].text).blocks[1])

\* C6 (amended): the statement holds for every emitted block whose text
\* get_line_type classifies REGULAR, which includes every block opened by a
\* regular line.  The text of a block opened by a metadata line or an addendum
\* heading starts with that raw line, so it is read again as a metadata line
\* (one block, same text, part 'metadata') or as an addendum heading (one
\* block, same text, part set).
C6_RegularTextIdempotent ==
    pc = "done" =>
        \A n \in Blocks :
            LET text == result[n].text
                again == Parse(text).blocks[1]
            IN  /\ get_line_type(text) = REGULAR =>
                      OneBlockSameText(text) /\ NoStructure(again)
                /\ origin[n].opener = REGULAR => get_line_type(text) = REGULAR
                /\ origin[n].opener = METADATA =>
                      /\ OneBlockSameText(text)
                      /\ again.part = MetadataSentinel
                      /\ NoStructure([again EXCEPT !.part = None])
                /\ origin[n].opener = ADDENDUM =>
                      /\ OneBlockSameText(text)
                      /\ again.part \notin {None, MetadataSentinel}
                      /\ NoStructure([again EXCEPT !.part = None])

C6_Witness ==
    /\ pc = "done"
    /\ \E n \in Blocks : /\ origin[n].opener = SECTION
                         /\ origin[n].last > origin[n].first
                         /\ get_line_type(result[n].text) = REGULAR
                         /\ result[n].text # StripWS(result[n].text)
    /\ \E n \in Blocks : origin[n].opener = METADATA

\* the category of the k-th line of the document (k from 1)
TypeAt(k) == LineTypeOf(lines[k])

\* the last line among the lines from..to whose category is in S; 0 if none
LastOf(S, from, to) ==
    LET hits == {k \in from..to : TypeAt(k) \in S}
    IN  IF hits = {} THEN 0 ELSE MaxOf(hits)

\* the text parse keeps of heading line k; None for k = 0
HeadingText(k) == IF k = 0 THEN None ELSE Strip(lines[k], HeadingStripChars)

RECURSIVE Concat(_, _)
Concat(from, to) ==
    IF from > to THEN <<>> ELSE lines[from] \o Concat(from + 1, to)

\* C8: the blocks of result stand in source order.  Block n is built from the
\* lines first..last of its origin and from no other line: its text is the
\* opening line (for a section, the remainder after the number) followed by
\* the lines after it up to last; the line ranges of successive blocks are
\* disjoint and increasing, and all lie before the cursor.
C8_SourceOrder ==
    /\ Len(origin) = Len(result)
    /\ \A n \in Blocks :
          /\ 0 <= origin[n].first /\ origin[n].first <= origin[n].last
          /\ origin[n].last < lineIdx /\ lineIdx <= Len(lines)
          /\ n > 1 => origin[n - 1].last < origin[n].first
          /\ result[n].text =
                (IF origin[n].opener = SECTION
                 THEN SectionRemainder(lines[origin[n].first + 1])
                 ELSE lines[origin[n].first + 1])
                \o Concat(origin[n].first + 2, origin[n].last + 1)

C8_Witness ==
    /\ pc = "done"
    /\ Len(result) >= 2
    /\ \E n \in Blocks : origin[n].opener = SECTION /\ origin[n].last > origin[n].first
    /\ \E n \in Blocks : n > 1 /\ origin[n].first > origin[n - 1].last + 1

\* the cursor stands on a line of a category in S
CursorAt(S) == pc = "walk" /\ lineIdx < Len(lines) /\ TypeAt(lineIdx + 1) \in S

\* C9: when current_part is 'metadata' and the line at the cursor is a Chapter
\* heading, a Sign heading or a Section line, the step clears current_part;
\* and in every step, a block appended with part 'metadata' is one a Metadata
\* line opened, and current_part is 'metadata' after the step only if the
\* step processed a Metadata line.
C9_MetadataScope ==
    [][/\ current_part = MetadataSentinel /\ CursorAt({CHAPTER, SIGN, SECTION})
          => current_part' = None
       /\ \A n \in 1..Len(result') :
             result'[n].part = MetadataSentinel => origin'[n].opener = METADATA
       /\ current_part' = MetadataSentinel /\ lineIdx' # lineIdx
          => CursorAt({METADATA})]_vars

C9_Witness ==
    /\ pc = "walk"
    /\ lineIdx >= 2
    /\ TypeAt(lineIdx - 1) = METADATA
    /\ TypeAt(lineIdx) = CHAPTER
    /\ current_part = None
    /\ current_chapter = HeadingText(lineIdx)
    /\ result # <<>>
    /\ result[Len(result)].part = MetadataSentinel

-----------------------------------------------------------------------------
(* Properties of get_line_type *)

\* the line begins with "=" and has something after it
HeadingShaped(s) == Len(s) >= 2 /\ s[1] = "="

\* the line, without its leading spaces, begins with a metadata tag
TagFirst(s) ==
    \E k \in 1..Len(s) : s[k] \in MetadataTags /\ \A m \in 1..(k - 1) : s[m] = " "

\* the line is spaces, "@", spaces, then a run of token characters that has a
\* "." after its first character
SectionShaped(s) ==
    /\ Strip(s, {" "}) # <<>>
    /\ Head(Strip(s, {" "})) = "@"
    /\ \E k \in 2..TokenRun(AfterMarker(s)) : AfterMarker(s)[k] = "."

\* the category the priority order of the claim gives
ByPriority(s) ==
    IF HeadingShaped(s) /\ Contains(s, "TOSEFET") THEN ADDENDUM
    ELSE IF HeadingShaped(s) /\ Contains(s, "HELEK") THEN PART
    ELSE IF HeadingShaped(s) /\ Contains(s, "PEREK") THEN CHAPTER
    ELSE IF HeadingShaped(s) /\ Contains(s, "SIMAN") THEN SIGN
    ELSE IF TagFirst(s) THEN METADATA
    ELSE IF SectionShaped(s) THEN SECTION
    ELSE REGULAR

\* C10: get_line_type returns exactly one category, by the fixed priority: a
\* heading-shaped line with a heading keyword in its title gets the first of
\* Addendum, Part, Chapter, Sign whose keyword is there; otherwise a line that
\* starts with a metadata tag is Metadata; otherwise a line of the section
\* pattern is Section; otherwise Regular.
C10_PriorityOrder ==
    cpc # "call" /\ line # None =>
        /\ line_type \in LineType
        /\ line_type = ByPriority(line)

C10_Witness ==
    /\ cpc = "classified"
    /\ Contains(line, "HELEK") /\ Contains(line, "PEREK") /\ line[2] = "PEREK"
    /\ line_type = PART

Headings == {ADDENDUM, PART, CHAPTER, SIGN}

HasKeyword(s) == \E t \in Headings : Contains(s, KeywordOf(t))

\* C26 as stated: the opening run of "=" is optional, so a line that holds a
\* heading keyword gets the category of that keyword whether or not it begins
\* with "=".
C26_OpeningRunOptional ==
    cpc # "call" /\ line # None /\ HasKeyword(line) =>
        line_type \in Headings /\ Contains(line, KeywordOf(line_type))

\* C26, amended: the opening run of "=" is required.  get_line_type returns a
\* heading category exactly for the lines that begin with "=" and hold a
\* heading keyword, and the category is the first of Addendum, Part, Chapter,
\* Sign whose keyword the line holds; a line that holds a keyword but does not
\* begin with "=" is Metadata, Section or Regular.
C26_OpeningRunRequired ==
    cpc # "call" /\ line # None =>
        /\ line_type \in Headings <=> (Len(line) >= 1 /\ line[1] = "=" /\ HasKeyword(line))
        /\ line_type \in Headings => line_type = FirstHeading(line)
        /\ HasKeyword(line) /\ line[1] # "=" => line_type \in {METADATA, SECTION, REGULAR}

C26_Witness ==
    /\ cpc = "classified"
    /\ line = <<"x", " ", "HELEK">>
    /\ line_type = REGULAR

-----------------------------------------------------------------------------
(* Properties of get_section_properties *)

\* s has no whitespace at either end
Trimmed(s) == s = <<>> \/ (s[1] \notin Whitespace /\ s[Len(s)] \notin Whitespace)

\* C12: get_section_properties returns a result exactly on the lines of the
\* section pattern: the number token and the rest of the line, both without
\* surrounding whitespace, the rest being the empty string when nothing
\* follows the number; on every other line it raises ValueError.
C12_ExtractExactlyOnSections ==
    cpc = "ret" /\ line # None =>
        IF SectionShaped(line)
        THEN /\ section_prop = [kind |-> "ok",
                                section_num |-> SectionNumber(line),
                                section_text |-> SectionRemainder(line)]
             /\ Trimmed(section_prop.section_num)
             /\ Trimmed(section_prop.section_text)
             /\ line_type = SECTION
        ELSE /\ section_prop.kind = "ValueError"
             /\ line_type # SECTION

C12_Witness ==
    /\ cpc = "ret"
    /\ line = <<"@", " ", "1", ".", " ", "x", " ", "x", " ">>
    /\ section_prop = [kind |-> "ok", section_num |-> <<"1">>,
                       section_text |-> <<"x", " ", "x">>]

\* C29: on every string, get_line_type returns SECTION exactly when
\* get_section_properties returns a result; on the lines of every other
\* category, blank ones included, it raises ValueError.  So the call parse
\* makes on a line classified SECTION never raises "not a valid section line".
C29_ClassifierExtractorAgree ==
    cpc = "ret" /\ line # None =>
        /\ line_type = SECTION <=> section_prop.kind = "ok"
        /\ line_type \in LineType \ {SECTION} <=>
               section_prop \in {ValueError("Line cannot be empty"),
                                 ValueError("This is not a valid section line")}
        /\ section_prop = ValueError("This is not a valid section line") =>
               line_type \in Headings \cup {METADATA, REGULAR}

C29_Witness ==
    /\ cpc = "ret"
    /\ line = <<" ", "@", "1", ".">>
    /\ line_type = SECTION
    /\ section_prop.kind = "ok"
    /\ section_prop.section_num = <<"1">>

-----------------------------------------------------------------------------
(* The heading steps *)

\* the line at the cursor, and its category
CursorLine == lines[lineIdx + 1]

CursorType == TypeAt(lineIdx + 1)

\* s without the characters of chars at its two ends
Trim(s, chars) ==
    LET inner == {k \in 1..Len(s) : s[k] \notin chars}
    IN  IF inner = {} THEN <<>> ELSE SubSeq(s, MinOf(inner), MaxOf(inner))

Brackets == {"(", ")", "{", "}"}

\* the step at a Part, Chapter or Sign heading, the heading text being the
\* line without the characters of chars at its two ends
HeadingStep(chars) ==
    pc = "walk" /\ lineIdx < Len(lines) /\ CursorType \in {PART, CHAPTER, SIGN} =>
        /\ CursorType = PART =>
               /\ current_part' = Trim(CursorLine, chars)
               /\ current_chapter' = None
               /\ current_sign' = None
               /\ current_section' = None
        /\ CursorType = CHAPTER =>
               /\ current_chapter' = Trim(CursorLine, chars)
               /\ current_sign' = None
               /\ current_section' = None
               /\ current_part # MetadataSentinel => current_part' = current_part
        /\ CursorType = SIGN =>
               /\ current_sign' = Trim(CursorLine, chars)
               /\ current_section' = None
               /\ current_chapter' = current_chapter
               /\ current_part # MetadataSentinel => current_part' = current_part
        /\ lineIdx' = lineIdx + 1
        /\ UNCHANGED <<document, law_name, lines, result, raised, pc>>

-----------------------------------------------------------------------------
(* The accumulating steps *)

\* the last line (from 1) of the longest run of lines after line f whose
\* category is not in stop; f when the run is empty
RunEnd(f, stop) ==
    MaxOf({l \in f..Len(lines) : \A k \in (f + 1)..l : TypeAt(k) \notin stop})

\* the text a block opens with: the raw line, or the remainder of a section
OpeningText(t, s) == IF t = SECTION THEN SectionRemainder(s) ELSE s

\* the text the claim gives the block opened at the cursor
RunText ==
    OpeningText(CursorType, CursorLine)
        \o Concat(lineIdx + 2, RunEnd(lineIdx + 1, stop_tags(CursorType)))

\* C19: the step at a Metadata, Addendum or Section line absorbs the longest
\* run of following lines whose category is not in the stop set of the opening
\* category, up to the end of the document; the text of the block is the
\* opening text (the raw line, or the section's remainder) followed by the
\* absorbed raw lines with no separator; the cursor is left on the line that
\* stopped the run.
C19_AccumulationRule ==
    [][pc = "walk" /\ lineIdx < Len(lines)
           /\ CursorType \in {METADATA, ADDENDUM, SECTION} =>
          /\ lineIdx' = RunEnd(lineIdx + 1, stop_tags(CursorType))
          /\ lineIdx' < Len(lines) => TypeAt(lineIdx' + 1) \in stop_tags(CursorType)
          /\ \A k \in (lineIdx + 2)..lineIdx' : TypeAt(k) \notin stop_tags(CursorType)
          /\ IF StripWS(RunText) # <<>>
             THEN /\ Len(result') = Len(result) + 1
                  /\ result'[Len(result')].text = RunText
                  /\ SubSeq(result', 1, Len(result)) = result
             ELSE result' = result
          /\ pc' = "walk"]_vars

C19_Witness ==
    /\ pc = "walk"
    /\ lines = <<AddendumLine, SignLine, Section1Line, PartLine>>
    /\ lineIdx = 3
    /\ Len(result) = 1
    /\ result[1].text = AddendumLine \o SignLine \o Section1Line

-----------------------------------------------------------------------------
(* Addendum blocks *)

\* C21: the step at an Addendum heading absorbs every Chapter, Sign, Section
\* and Regular line that follows, up to the next Addendum, Part or Metadata
\* line or the end of the document, into one block: the cursor lands behind
\* them, so none of them is processed on its own; exactly one block is
\* appended, with part the trimmed heading text, chapter, sign and section
\* unset and the lines as text; and the context after the step has chapter,
\* sign and section unset, whatever headings and sections the run holds.
C21_AddendumAbsorbs ==
    [][CursorAt({ADDENDUM}) =>
          LET l == RunEnd(lineIdx + 1, {ADDENDUM, PART, METADATA})
          IN  /\ \A k \in (lineIdx + 2)..l : TypeAt(k) \in {CHAPTER, SIGN, SECTION, REGULAR}
              /\ lineIdx' = l
              /\ result' = Append(result,
                                  [law_name |-> law_name,
                                   part |-> HeadingText(lineIdx + 1),
                                   chapter |-> None, sign |-> None, section |-> None,
                                   text |-> Concat(lineIdx + 1, l)])
              /\ current_part' = HeadingText(lineIdx + 1)
              /\ current_chapter' = None
              /\ current_sign' = None
              /\ current_section' = None]_vars

C21_Witness ==
    /\ pc = "walk"
    /\ lines = <<AddendumLine, ChapterLine, Section1Line, PartLine>>
    /\ lineIdx = 3
    /\ Len(result) = 1
    /\ result[1].text = AddendumLine \o ChapterLine \o Section1Line
    /\ result[1].part = <<"TOSEFET">>
    /\ current_chapter = None /\ current_section = None

-----------------------------------------------------------------------------
(* The emission filter *)

\* the text the step at the cursor accumulates: nothing at a Part, Chapter or
\* Sign heading, the line itself at a Regular line, the run otherwise
StepText ==
    IF CursorType \in {PART, CHAPTER, SIGN} THEN <<>>
    ELSE IF CursorType = REGULAR THEN CursorLine
    ELSE RunText

\* C22: a step of the walk appends a block exactly when the text it
\* accumulated is not blank, and appends that text; so no block of a result
\* has blank text.  A Part, Chapter or Sign heading appends nothing.  A
\* Section line whose remainder is empty and that absorbed nothing but blank
\* lines appends nothing and still sets current_section to its number.
C22_EmissionFilter ==
    [][pc = "walk" /\ lineIdx < Len(lines) =>
          /\ IF OnlyWhitespace(StepText)
             THEN result' = result
             ELSE /\ Len(result') = Len(result) + 1
                  /\ SubSeq(result', 1, Len(result)) = result
                  /\ result'[Len(result')].text = StepText
          /\ CursorType \in {PART, CHAPTER, SIGN} => result' = result
          /\ CursorType = SECTION => current_section' = SectionNumber(CursorLine)
          /\ \A n \in 1..Len(result') : ~OnlyWhitespace(result'[n].text)]_vars

C22_Witness ==
    /\ pc = "walk"
    /\ lines = <<EmptySectionLine, BlankLine, PartLine>>
    /\ lineIdx = 2
    /\ result = <<>>
    /\ current_section = <<"2">>

-----------------------------------------------------------------------------
(* The stop sets *)

Levels == {ADDENDUM, PART, CHAPTER, SIGN, SECTION}

\* the order Addendum > Part > Chapter > Sign > Section
StrictRank(t) ==
    CASE t = ADDENDUM -> 5 [] t = PART -> 4 [] t = CHAPTER -> 3 [] t = SIGN -> 2
      [] t = SECTION -> 1

\* the order with Addendum and Part on one level
PeerRank(t) == IF t = ADDENDUM THEN StrictRank(PART) ELSE StrictRank(t)

\* every block a heading or a section opened absorbed lines of narrower
\* levels only and, when a heading or a section ended it, was ended by a
\* level at least as broad as its own; and in the table the stop set of
\* every level is the level itself and the levels at least as broad
Hierarchy(rank(_)) ==
    /\ \A n \in Blocks :
           origin[n].opener \in Levels =>
               LET t == origin[n].opener
                   l == origin[n].last + 1
               IN  /\ \A k \in (origin[n].first + 2)..l :
                          TypeAt(k) \in Levels => rank(TypeAt(k)) < rank(t)
                   /\ l < lineIdx /\ TypeAt(l + 1) \in Levels =>
                          rank(TypeAt(l + 1)) >= rank(t)
    /\ \A t \in Levels : stop_tags(t) \cap Levels = {u \in Levels : rank(u) >= rank(t)}

\* a run opened at line f (from 1) by a line of category t ended at a line of
\* category u, which opened the next step
StoppedBy(t, u) ==
    \E n \in Blocks :
        /\ origin[n].opener = t
        /\ origin[n].last + 1 < Len(lines)
        /\ TypeAt(origin[n].last + 2) = u
        /\ lineIdx > origin[n].last + 1

\* C23 as stated: under the order Addendum > Part > Chapter > Sign > Section
\* the stop set of every level holds the level itself and every broader
\* level, and no narrower level.
C23_StrictHierarchy == Hierarchy(StrictRank)

\* C23 (amended): Addendum and Part are on one level, the broadest: the stop
\* set of each holds both.  Under Addendum = Part > Chapter > Sign > Section
\* the stop set of every level holds the level itself and every level that is
\* as broad or broader, and no narrower level.
C23_PeerHierarchy == Hierarchy(PeerRank)

C23_Witness ==
    /\ pc = "done"
    /\ lines = <<AddendumLine, ChapterLine, PartLine, Section1Line>>
    /\ StoppedBy(ADDENDUM, PART)
    /\ Len(result) = 2

-----------------------------------------------------------------------------
(* Termination of the walk *)

\* C24: parse terminates.  Every iteration of the outer loop moves the cursor
\* forward and not beyond the last line, and no step ever moves it back; the
\* lines an iteration handles are the lines between the cursor before and
\* after it (the block it appends is made of these lines and no other), so
\* every line is handled once; and the walk ends with the cursor on the
\* number of lines.
C24_SingleForwardPass ==
    /\ [][/\ lineIdx' >= lineIdx
          /\ pc = "walk" /\ lineIdx < Len(lines) =>
                 /\ lineIdx < lineIdx' /\ lineIdx' <= Len(lines)
                 /\ result' # result =>
                        result'[Len(result')].text =
                            OpeningText(CursorType, CursorLine)
                                \o Concat(lineIdx + 2, lineIdx')
          /\ pc = "walk" /\ pc' = "done" => lineIdx = Len(lines)]_vars
    /\ <>(pc = "done")

C24_Witness ==
    /\ pc = "done"
    /\ raised = NoError
    /\ lines = <<Section1Line, RegularLine>>
    /\ lineIdx = 2
    /\ Len(result) = 1
    /\ origin[1].first = 0 /\ origin[1].last = 1

-----------------------------------------------------------------------------
(* Failures of the helpers *)

\* C25: parse does not recover from a failure of get_line_type or
\* get_section_properties inside a document.  A step of the walk at a line is
\* either the whole iteration of that line, or it ends the call with an
\* exception (SectionParsingError, ParserError, or the ValueError the helper
\* raised) and appends nothing; once an exception is raised the call is over
\* and nothing is returned, whatever blocks result held.
C25_NoRecovery ==
    /\ [][pc = "walk" /\ lineIdx < Len(lines) =>
            \/ LET nc == Branch(CursorType, lines, Context)
               IN  /\ pc' = "walk"
                   /\ raised' = NoError
                   /\ lineIdx' = nc.lineIdx
                   /\ result' = Appended(result, law_name, nc)
            \/ /\ pc' = "done"
               /\ raised'.kind \in {"SectionParsingError", "ParserError", "ValueError"}
               /\ result' = result]_vars
    /\ [][raised # NoError => pc = "done" /\ raised' = raised /\ pc' = pc]_vars

C25_Witness ==
    /\ lines = <<RegularLine, Section1Line>>
    /\ Len(result) = 1
    /\ lineIdx = 1
    /\ pc = "done"
    /\ raised = SectionParsingError(1, "Exception")

-----------------------------------------------------------------------------
(* Metadata blocks *)

Structural == {SECTION, SIGN, CHAPTER, PART, ADDENDUM}

\* the blocks that hold line k (from 1)
BlocksOf(k) == {n \in Blocks : origin[n].first + 1 <= k /\ k <= origin[n].last + 1}

\* C20: a run of Metadata lines, with the Regular and blank lines between and
\* after them, makes one block, with part 'metadata' and chapter, sign and
\* section unset, and not one block per tag: the block of a Metadata line runs
\* to the line before the next Section, Sign, Chapter, Part or Addendum line
\* (or to the end), and every Metadata line walked lies in one such block.
C20_MetadataMerging ==
    /\ \A n \in Blocks :
           origin[n].opener = METADATA =>
               LET f == origin[n].first + 1
                   l == origin[n].last + 1
               IN  /\ \A k \in f..l : TypeAt(k) \in {METADATA, REGULAR}
                   /\ l = Len(lines) \/ TypeAt(l + 1) \in Structural
                   /\ f = 1 \/ TypeAt(f - 1) # METADATA
                   /\ result[n].part = MetadataSentinel
                   /\ result[n].chapter = None
                   /\ result[n].sign = None
                   /\ result[n].section = None
                   /\ result[n].text = Concat(f, l)
    /\ \A k \in 1..lineIdx :
           TypeAt(k) = METADATA =>
               /\ Cardinality(BlocksOf(k)) = 1
               /\ \A n \in BlocksOf(k) : origin[n].opener = METADATA

C20_Witness ==
    /\ pc = "done"
    /\ lines = <<TagLine, BlankLine, SourceLine>>
    /\ Len(result) = 1
    /\ result[1].part = MetadataSentinel
    /\ result[1].text = TagLine \o BlankLine \o SourceLine

-----------------------------------------------------------------------------
(* Where the context of a block comes from *)

\* C27: a block carries part 'metadata' exactly when a Metadata line opened
\* it: no block opened by a Section, Regular or Addendum line carries it.  The
\* text parse keeps of a Part or Addendum heading holds the keyword of its
\* category, so it is never the word 'metadata', and current_part is that
\* word only while the last line processed at the cursor is a Metadata line.
C27_SentinelProvenance ==
    /\ \A n \in Blocks :
           /\ result[n].part = MetadataSentinel <=> origin[n].opener = METADATA
           /\ origin[n].opener \in {SECTION, REGULAR, ADDENDUM} =>
                  result[n].part # MetadataSentinel
    /\ \A k \in 1..lineIdx :
           TypeAt(k) \in {PART, ADDENDUM} =>
               /\ Contains(HeadingText(k), KeywordOf(TypeAt(k)))
               /\ HeadingText(k) # MetadataSentinel
    /\ pc = "walk" /\ current_part = MetadataSentinel =>
           /\ origin # <<>>
           /\ origin[Len(origin)].opener = METADATA
           /\ origin[Len(origin)].last = lineIdx - 1

C27_Witness ==
    /\ pc = "done"
    /\ lines = <<SourceLine, NamedMetadataLine, Section1Line>>
    /\ Len(result) = 2
    /\ result[1].part = MetadataSentinel
    /\ result[2].part = MetadataSentinel \o <<"HELEK">>
    /\ origin[2].opener = SECTION

\* the categories other than Regular
NotRegular == LineType \ {REGULAR}

\* C28: a block has section set exactly when a Section line opened it, and it
\* is then the number of that line; the blocks opened by Regular, Metadata and
\* Addendum lines have section unset.  A Regular line is at the cursor only
\* when the last line before it that is not Regular is a Part, Chapter or Sign
\* heading, or when there is none, and current_section is then unset.
C28_SectionProvenance ==
    /\ \A n \in Blocks :
           /\ result[n].section # None <=> origin[n].opener = SECTION
           /\ origin[n].opener = SECTION =>
                  result[n].section = SectionNumber(lines[origin[n].first + 1])
           /\ origin[n].opener \in {REGULAR, METADATA, ADDENDUM} =>
                  result[n].section = None
    /\ CursorAt({REGULAR}) =>
           /\ LET k == LastOf(NotRegular, 1, lineIdx)
              IN  k = 0 \/ TypeAt(k) \in {PART, CHAPTER, SIGN}
           /\ current_section = None

C28_Witness ==
    /\ pc = "done"
    /\ lines = <<Section1Line, ChapterLine, RegularLine, AddendumLine>>
    /\ Len(result) = 3
    /\ result[1].section = <<"1">>
    /\ origin[2].opener = REGULAR /\ result[2].section = None
    /\ origin[3].opener = ADDENDUM /\ result[3].section = None

-----------------------------------------------------------------------------
(* What the blocks keep of the document *)

\* what line k gives to the block that holds it: the remainder after the
\* number when it is the section line that opened the block, else the raw line
Contribution(n, k) ==
    IF origin[n].opener = SECTION /\ k = origin[n].first + 1
    THEN SectionRemainder(lines[k])
    ELSE lines[k]

\* the contributions of the lines from..to to block n, one after the other
RECURSIVE Contributions(_, _, _)
Contributions(n, from, to) ==
    IF from > to THEN <<>>
    ELSE Contribution(n, from) \o Contributions(n, from + 1, to)

\* C30: when parse returns, every line is in at most one block, and the text
\* of a block is what its lines give it, whole and in order.  Every Metadata
\* line, every Regular line that is not blank and every Section line with a
\* remainder is in exactly one block.  A line in no block is a blank line, a
\* Part, Chapter or Sign heading, or a Section line without remainder; and
\* what a block does not keep of the section line that opened it is the
\* "@ number." in front of the remainder.
C30_NoContentLoss ==
    pc = "done" /\ raised = NoError =>
        /\ \A n \in Blocks :
               result[n].text = Contributions(n, origin[n].first + 1, origin[n].last + 1)
        /\ \A k \in 1..Len(lines) :
               /\ Cardinality(BlocksOf(k)) <= 1
               /\ \/ TypeAt(k) = METADATA
                  \/ TypeAt(k) = REGULAR /\ StripWS(lines[k]) # <<>>
                  \/ TypeAt(k) = SECTION /\ SectionRemainder(lines[k]) # <<>>
                  => Cardinality(BlocksOf(k)) = 1
               /\ BlocksOf(k) = {} =>
                      \/ StripWS(lines[k]) = <<>>
                      \/ TypeAt(k) \in {PART, CHAPTER, SIGN}
                      \/ TypeAt(k) = SECTION /\ SectionRemainder(lines[k]) = <<>>
               /\ TypeAt(k) = SECTION =>
                      \E p \in 1..Len(lines[k]) :
                          /\ lines[k][p] = "."
                          /\ StripWS(SubSeq(lines[k], p + 1, Len(lines[k])))
                                 = SectionRemainder(lines[k])
                          /\ \E a \in 1..(p - 1) :
                                 /\ lines[k][a] = "@"
                                 /\ StripWS(SubSeq(lines[k], a + 1, p - 1))
                                        = SectionNumber(lines[k])

C30_Witness ==
    /\ pc = "done"
    /\ raised = NoError
    /\ lines = <<PartLine, EmptySectionLine, RegularLine>>
    /\ Len(result) = 1
    /\ result[1].section = <<"2">>
    /\ result[1].text = RegularLine
    /\ BlocksOf(1) = {} /\ BlocksOf(2) = {1} /\ BlocksOf(3) = {1}

-----------------------------------------------------------------------------
(* The law name *)

TagPositions(doc) == {p \in 1..Len(doc) : doc[p] = "<SHEM>"}

\* the name read after the tag at position p: the text from the first
\* character that is not whitespace to the end of its line, without trailing
\* whitespace; the empty name when only blanks follow; None when only line
\* breaks (or nothing) follow
NameAt(doc, p) ==
    LET n == Len(doc)
        solid == {k \in (p + 1)..n : doc[k] \notin Whitespace}
        blank == {k \in (p + 1)..n : doc[k] # NL}
    IN  IF solid # {}
        THEN LET f == MinOf(solid)
                 breaks == {k \in f..n : doc[k] = NL}
                 e == IF breaks = {} THEN n ELSE MinOf(breaks) - 1
                 l == MaxOf({k \in f..e : doc[k] \notin Whitespace})
             IN  SubSeq(doc, f, l)
        ELSE IF blank # {} THEN <<>>
        ELSE None

\* C16: the law name is fixed for the whole call of parse: it is the name read
\* at the first law-name tag of the document, wherever the tag stands, and
\* every block of the result carries it, the blocks of lines before the tag
\* line included; a document without the tag leaves it unset in every block.
C16_LawNameFixed ==
    pc \in {"walk", "done"} /\ raised.kind # "ValueError" =>
        /\ \A b \in Blocks : result[b].law_name = law_name
        /\ TagPositions(document) = {} => law_name = None
        /\ TagPositions(document) # {} =>
               law_name = NameAt(document, MinOf(TagPositions(document)))

C16_Witness ==
    /\ pc = "done"
    /\ lines = <<RegularLine, ClosedTagLine, TagLine>>
    /\ Len(result) = 2
    /\ result[1].text = RegularLine
    /\ result[1].law_name = <<"T", "</SHEM>">>
    /\ result[2].law_name = <<"T", "</SHEM>">>

-----------------------------------------------------------------------------
(* Properties of parse_many *)

\* the documents of ds on which parse succeeds, and those on which it fails
Succeeds(d) == Parse(d).raised = NoError

\* what parse returns for each document of ds on which it succeeds, in order
RECURSIVE ResultsOf(_)
ResultsOf(ds) ==
    IF ds = <<>> THEN <<>>
    ELSE IF Succeeds(Head(ds)) THEN <<Parse(Head(ds)).blocks>> \o ResultsOf(Tail(ds))
    ELSE ResultsOf(Tail(ds))

Handled == SubSeq(documents, 1, doc_i)

DocMinimalBlocks == Parse(DocMinimal).blocks

\* C13: parse_many returns, in input order, what parse returns for each
\* document on which parse succeeds, each parsed from a fresh context;
\* failing documents are skipped and the loop goes on, so the length of the
\* result is the number of successes; the empty list gives the empty list.
C13_ResultsOfSuccesses ==
    /\ mpc = "loop" => results = ResultsOf(Handled)
    /\ mpc = "done" /\ batch_raised = NoError =>
           /\ returned = ResultsOf(documents)
           /\ Len(returned) = Cardinality({k \in 1..Len(documents) : Succeeds(documents[k])})
           /\ doc_i = Len(documents)
    /\ mpc = "done" /\ documents = <<>> => returned = <<>> /\ batch_raised = NoError

C13_Witness ==
    /\ mpc = "done"
    /\ documents = <<DocStructured, EmptyLine, DocStructured, DocMinimal>>
    /\ Len(returned) = 3
    /\ returned[2] = returned[1]
    /\ returned[3] = DocMinimalBlocks

\* the 1-based positions of the documents on which parse fails
Failing == {k \in 1..Len(documents) : ~Succeeds(documents[k])}

\* the k-th smallest member of S
RECURSIVE Kth(_, _)
Kth(S, k) == IF k = 1 THEN MinOf(S) ELSE Kth(S \ {MinOf(S)}, k - 1)

\* C14: parse_many raises ParserError 'Failed to parse any documents' exactly
\* when the list is not empty and parse fails on every document; the error
\* carries the entries (input index, error) of the first three failing
\* documents in input order, and no more than three.
C14_BatchFailure ==
    mpc = "done" =>
        /\ batch_raised # NoError <=>
               documents # <<>> /\ Failing = 1..Len(documents)
        /\ batch_raised # NoError =>
               /\ batch_raised.kind = "ParserError"
               /\ batch_raised.msg = "Failed to parse any documents"
               /\ Len(batch_raised.sample) = (IF Cardinality(Failing) < 3
                                               THEN Cardinality(Failing) ELSE 3)
               /\ \A k \in 1..Len(batch_raised.sample) :
                      batch_raised.sample[k] =
                          [index |-> Kth(Failing, k) - 1,
                           error |-> Parse(documents[Kth(Failing, k)]).raised.msg]

C14_Witness ==
    /\ mpc = "done"
    /\ documents = <<PartLine, None, EmptyLine, None>>
    /\ batch_raised.kind = "ParserError"
    /\ batch_raised.sample =
           <<[index |-> 0, error |-> "No valid content blocks found in document"],
             [index |-> 1, error |-> "Document cannot be None"],
             [index |-> 2, error |-> "Document cannot be empty"]>>

\* what the caller of parse_many gets about failures: the sample of the error
\* raised, and nothing when a list is returned
Reported == IF batch_raised = NoError THEN <<>> ELSE batch_raised.sample

\* C15 as stated: when parse_many is over, every document on which parse failed
\* is reported to the caller with its input index and its error, also when
\* other documents succeeded and a list is returned.
C15_FailuresReported ==
    mpc = "done" /\ batch_raised = NoError =>
        \A k \in Failing :
            \E n \in 1..Len(Reported) :
                Reported[n] = [index |-> k - 1, error |-> Parse(documents[k]).raised.msg]

-----------------------------------------------------------------------------
(* Properties of fetch_one *)

\* in every attempt of the call the request went through and BeautifulSoup raised
EveryParseFailed ==
    /\ fetch_log # <<>>
    /\ \A k \in 1..Len(fetch_log) : fetch_log[k] = "ParseError"

\* C17 as stated: when the HTTP request succeeds and parsing the returned HTML
\* fails, fetch_one ends with ParseError 'Failed to parse HTML content', not
\* with another kind of error and not with a None result.
C17_ParseFailureRaisesParseError ==
    fpc = "done" /\ EveryParseFailed =>
        /\ fetch_raised.kind = "ParseError"
        /\ fetch_raised.msg = "Failed to parse HTML content"

=============================================================================
